---- MODULE Spec2Model ----
(***************************************************************************)
(* State-machine model of the weather MCP servers of this repository:      *)
(*   - the streamable-HTTP server, class MCPServer and its express router  *)
(*     (src/src/index.http.ts), called variant "http" below;               *)
(*   - the SSE server with its module-level transports table               *)
(*     (src/unnamed/part_001), called variant "sse" below;                 *)
(*   - the stand-alone dispatcher MCPProtocolHandler (src/unnamed/part_003)*)
(*     and the CallTool / ListTools handlers of MCPServer.                 *)
(* An async handler is a sequence of steps cut at its await points; other  *)
(* handlers, timers and signals may run between two steps.  What an SDK    *)
(* call does that the repository's code does not decide (whether it        *)
(* throws, whether a close completes) is a nondeterministic choice.        *)
(***************************************************************************)
EXTENDS Integers, Sequences, FiniteSets, TLC

\* ---------------------------------------------------------------- bounds
MaxSessions == 2
MaxTransports == 2
MaxCalls == 2

\* ------------------------------------------------------ program constants
\* setTimeout(..., 5000) of shutdown(), in seconds
ShutdownTimeout == 5
\* req.headers[...] / req.query.sessionId when the client sent none
Undefined == -1
\* the error code createErrorResponse writes into every envelope it builds
ServerError == -32000

VARIABLES
  variant,          \* which entry point is the running process: "http" | "sse"
  transports,       \* the session table: session id -> transport object
  tr,               \* the transport objects allocated so far (a sequence)
  uuids,            \* how many identifiers randomUUID() has produced
  serverTransport,  \* the transport the single Server instance is bound to (0: none)
  calls,            \* the HTTP calls in flight, by slot
  proc,             \* the process: signals, shutdown progress, exit
  last,             \* the outcome of the call or timer run that finished last
  removed,          \* history: identifiers deleted from the table
  rpc,              \* a dispatcher at work: its requests so far, the last one, its answer
  streams           \* per transport: its notification sends in flight and its stream timer

vars ==
  <<variant, transports, tr, uuids, serverTransport, calls, proc, last, removed, rpc, streams>>

\* -------------------------------------------------------------- the data
\* Identifier 0 stands for a key every object literal inherits from
\* Object.prototype ("constructor", "toString", "__proto__", ...); identifiers
\* 1.. are the values randomUUID() returns, in the order it returns them;
\* MaxSessions + 1 is an identifier randomUUID() never returns.
InheritedKeys == {0}
NeverIssued == MaxSessions + 1
Slots == 1..MaxCalls
\* req.body: one initialize envelope, one envelope of another method, an array
\* holding one initialize envelope, an array holding one other envelope
Bodies == {"init", "other", "batch", "batchOther"}

Free == [kind |-> "free", pc |-> "free", t |-> 0, err |-> FALSE, via |-> 0]

\* no JSON-RPC envelope written by the repository's code
NoEnvelope ==
  [id |-> <<"none", 0>>, result |-> FALSE, error |-> FALSE, code |-> 0, message |-> ""]

None ==
  [kind |-> "none", sid |-> Undefined, body |-> "other", status |-> 0, t |-> 0,
   via |-> 0, uncaught |-> FALSE, unknown |-> FALSE, envelope |-> NoEnvelope,
   targets |-> {}, invoked |-> {}, failed |-> {}, logged |-> {}, unhandled |-> {}]

NoRequest == [id |-> Undefined, method |-> "", params |-> FALSE, name |-> "", args |-> "absent"]
NoResponse ==
  [id |-> Undefined, kind |-> "none", code |-> 0, message |-> "", data |-> "",
   serverInfo |-> "", tools |-> << >>]
NoRpc ==
  [dispatcher |-> "", history |-> << >>, threw |-> << >>, request |-> NoRequest,
   response |-> NoResponse]

\* What a client can put in the session header / query: nothing, an id it was
\* given (live or removed since), an inherited key, an id never issued.
ClientIds == {Undefined} \cup InheritedKeys \cup (1..uuids) \cup {NeverIssued}

\* a lookup that finds nothing
noKey(sid) == FALSE
\* transports[sessionId] read as a truth value: an own key, or an inherited one.
Truthy(sid) == sid \in DOMAIN transports \/ sid \in InheritedKeys

\* an identifier scheme that numbers a session by the size of the table
tableSizeId == Cardinality(DOMAIN transports) + 1
\* the sessionIdGenerator / the SSE transport's own id: randomUUID()
randomUUID == uuids + 1

\* Array.isArray(body) and the elements of an array body
IsArray(body) == body \in {"batch", "batchOther"}
Elements(body) ==
  IF body = "batch" THEN <<"init">> ELSE IF body = "batchOther" THEN <<"other">> ELSE << >>
\* a test every parsed body passes
isParsedBody(body) == body \in {"init", "other", "batch", "batchOther"}
\* isInitial(data): InitializeRequestSchema.safeParse(data).success
isInitial(data) == data = "init"
\* isInitializeRequest(body): body.some(isInitial) on an array, isInitial(body) otherwise
isInitializeRequest(body) ==
  IF IsArray(body) THEN \E i \in DOMAIN Elements(body) : isInitial(Elements(body)[i])
  ELSE isInitial(body)

\* The id of the JSON-RPC envelope a body carries (chosen by the client), and
\* createErrorResponse(message): an error envelope whose id is a new random
\* UUID string, whatever the request was.
RequestId(body) == <<"id", 1>>
createErrorResponse(message) ==
  [id |-> <<"uuid", randomUUID>>, result |-> FALSE, error |-> TRUE, code |-> ServerError,
   message |-> message]

\* a registration that stores a transport the table already holds
PutShared(f, k, v) ==
  [x \in (DOMAIN f) \cup {k} |->
     IF x # k THEN f[x] ELSE IF DOMAIN f = {} THEN v ELSE f[CHOOSE y \in DOMAIN f : TRUE]]
Put(f, k, v) == [x \in (DOMAIN f) \cup {k} |-> IF x = k THEN v ELSE f[x]]
Drop(f, k) == [x \in (DOMAIN f) \ {k} |-> f[x]]

\* A step of the server runs while the process lives; the outcome of the step
\* before it has been read by then (observe).
Running == proc.state = "running" /\ last = None
\* slots are taken lowest first
FreeSlot(c) == calls[c] = Free /\ \A d \in Slots : d < c => calls[d] # Free

NewProc ==
  [state |-> "running", signals |-> 0, elapsed |-> 0, timer |-> FALSE,
   interval |-> (variant = "http"), closeReq |-> {}, hung |-> {},
   visited |-> << >>, threw |-> {}, logged |-> {}, stopping |-> FALSE]

Init ==
  /\ variant \in {"http", "sse"}
  /\ transports = << >>
  /\ tr = << >>
  /\ uuids = 0
  /\ serverTransport = 0
  /\ calls = [c \in Slots |-> Free]
  /\ proc = NewProc
  /\ last = None
  /\ removed = {}
  /\ rpc = NoRpc
  /\ streams = << >>

\* the outcome of a call that has just been answered (or left unanswered)
Outcome(kind, sid, body, status, t, via, uncaught) ==
  [None EXCEPT !.kind = kind, !.sid = sid, !.body = body, !.status = status,
               !.t = t, !.via = via, !.uncaught = uncaught,
               !.unknown = (sid # Undefined /\ sid \notin DOMAIN transports),
               !.envelope =
                 IF variant = "http" /\ status = 400
                 THEN createErrorResponse("Bad Request: invalid session ID or method.")
                 ELSE IF variant = "http" /\ status = 500
                 THEN createErrorResponse("Internal server error.")
                 ELSE NoEnvelope]

\* the outcome of a call that was handed to the transport of a live session
Settled(kind, t, body, status, via, uncaught) ==
  [Outcome(kind, tr[t].sessionId, body, status, t, via, uncaught) EXCEPT !.unknown = FALSE]

\* -------------------------------------------- MCPServer.handlePostRequest
\* First step: up to the first await (transport.handleRequest on an existing
\* session, server.connect on a bootstrap), or the whole handler when it
\* answers 400 or catches a synchronous TypeError.
handlePostRequest(c, sid, body) ==
  /\ Running /\ variant = "http" /\ FreeSlot(c)
  /\ IF sid # Undefined /\ Truthy(sid) THEN
       IF sid \in DOMAIN transports THEN
         /\ calls' = [calls EXCEPT ![c] =
                        [Free EXCEPT !.kind = "post", !.pc = "reuse", !.t = transports[sid]]]
         /\ last' = None /\ UNCHANGED <<tr, serverTransport>>
       ELSE
         \* an inherited key: transport.handleRequest is not a function; caught
         /\ last' = Outcome("post", sid, body, 500, 0, 0, FALSE)
         /\ UNCHANGED <<tr, serverTransport, calls>>
     ELSE IF sid = Undefined /\ isInitializeRequest(body) THEN
       /\ Len(tr) < MaxTransports
       /\ \E ok \in BOOLEAN :
            /\ tr' = Append(tr, [sessionId |-> 0, state |-> "active", onclose |-> FALSE,
                                 started |-> FALSE, booted |-> FALSE,
                                 fired |-> 0, ending |-> FALSE])
            /\ serverTransport' = IF ok THEN Len(tr) + 1 ELSE serverTransport
            /\ calls' = [calls EXCEPT ![c] =
                           [Free EXCEPT !.kind = "post", !.pc = "connect",
                                        !.t = Len(tr) + 1, !.err = ~ok]]
       /\ last' = None
     ELSE
       /\ last' = Outcome("post", sid, body, 400, 0, 0, FALSE)
       /\ UNCHANGED <<tr, serverTransport, calls>>
  /\ UNCHANGED <<streams, variant, transports, uuids, proc, removed, rpc>>

\* Second step of a bootstrap: server.connect has settled (line 143); on
\* success transport.handleRequest is called with the initialize body (line
\* 144): the transport draws its session id from the sessionIdGenerator, hands
\* the envelope to the Server, and the reply (with the session id) leaves
\* through the transport the Server is bound to at that moment.
postConnected(c) ==
  /\ Running /\ calls[c].kind = "post" /\ calls[c].pc = "connect"
  /\ IF calls[c].err THEN
       /\ calls' = [calls EXCEPT ![c] = Free]
       /\ last' = Outcome("post", Undefined, "init", 500, calls[c].t, 0, FALSE)
       /\ UNCHANGED <<tr, uuids>>
     ELSE
       /\ uuids < MaxSessions
       /\ \E ok \in BOOLEAN :
            LET t == calls[c].t IN
            /\ tr' = [tr EXCEPT ![t].sessionId = IF ok THEN randomUUID ELSE 0,
                                ![t].started = ok]
            /\ uuids' = IF ok THEN uuids + 1 ELSE uuids
            /\ calls' = [calls EXCEPT ![c].pc = "handle", ![c].err = ~ok,
                                      ![c].via = IF ok THEN serverTransport ELSE 0]
       /\ last' = None
  /\ UNCHANGED <<streams, variant, transports, serverTransport, proc, removed, rpc>>

\* Third step of a bootstrap: transport.handleRequest has settled; the
\* transport is registered under its session id (lines 148-151), or the catch
\* block answers 500 (lines 162-165).
postHandled(c) ==
  /\ Running /\ calls[c].kind = "post" /\ calls[c].pc = "handle"
  /\ LET t == calls[c].t
         sessionId == tr[t].sessionId IN
     IF calls[c].err THEN
       /\ last' = Outcome("post", Undefined, "init", 500, t, 0, FALSE)
       /\ UNCHANGED <<transports, tr>>
     ELSE
       /\ transports' = IF sessionId # 0 THEN Put(transports, sessionId, t)
                        ELSE transports
       /\ tr' = [tr EXCEPT ![t].booted = TRUE]
       /\ last' = Outcome("post", Undefined, "init", 200, t, calls[c].via, FALSE)
  /\ calls' = [calls EXCEPT ![c] = Free]
  /\ UNCHANGED <<streams, variant, uuids, serverTransport, proc, removed, rpc>>

\* A request handed to an existing transport (lines 131-134) has settled: the
\* Server's reply left through the transport it is bound to, or the transport's
\* handling threw and the catch block answers 500.
postReused(c) ==
  /\ Running /\ calls[c].kind = "post" /\ calls[c].pc = "reuse"
  /\ \E ok \in BOOLEAN, body \in Bodies :
       LET t == calls[c].t IN
       last' = Settled("post", t, body, IF ok THEN 200 ELSE 500,
                       IF ok THEN serverTransport ELSE 0, FALSE)
  /\ calls' = [calls EXCEPT ![c] = Free]
  /\ UNCHANGED <<streams, variant, transports, tr, uuids, serverTransport, proc, removed, rpc>>

\* --------------------------------------------- MCPServer.handleGetRequest
\* No try/catch: a TypeError on an inherited key, or a throwing
\* transport.handleRequest, rejects the handler's promise and nothing answers.
handleGetRequest(c, sid) ==
  /\ Running /\ variant = "http" /\ FreeSlot(c)
  /\ IF sid = Undefined \/ ~Truthy(sid) THEN
       /\ last' = Outcome("get", sid, "other", 400, 0, 0, FALSE)
       /\ UNCHANGED calls
     ELSE IF sid \in DOMAIN transports THEN
       /\ calls' = [calls EXCEPT ![c] =
                      [Free EXCEPT !.kind = "get", !.pc = "stream", !.t = transports[sid]]]
       /\ last' = None
     ELSE
       /\ last' = Outcome("get", sid, "other", 0, 0, 0, TRUE)
       /\ UNCHANGED calls
  /\ UNCHANGED <<streams, variant, transports, tr, uuids, serverTransport, proc, removed, rpc>>

getHandled(c) ==
  /\ Running /\ calls[c].kind = "get" /\ calls[c].pc = "stream"
  /\ \E ok \in BOOLEAN :
       LET t == calls[c].t IN
       last' = Settled("get", t, "other", IF ok THEN 200 ELSE 0,
                       IF ok THEN t ELSE 0, ~ok)
  /\ calls' = [calls EXCEPT ![c] = Free]
  /\ UNCHANGED <<streams, variant, transports, tr, uuids, serverTransport, proc, removed, rpc>>

\* ------------------------------------------------------ app.get('/sse')
\* First step, synchronous up to "await sharedMcpServer.connect(transport)":
\* the transport is built with its own random id, stored in the table, given
\* its onclose, and connect is called.  A connect that succeeds binds the
\* shared server to this transport and starts the stream (the endpoint event
\* carries the session id to the client).
getSse(c) ==
  /\ Running /\ variant = "sse" /\ proc.signals = 0 /\ FreeSlot(c)
  /\ Len(tr) < MaxTransports /\ uuids < MaxSessions
  /\ \E ok \in BOOLEAN :
       LET t == Len(tr) + 1
           sessionId == randomUUID IN
       /\ tr' = Append(tr, [sessionId |-> sessionId, state |-> "active",
                            onclose |-> TRUE, started |-> ok, booted |-> FALSE,
                            fired |-> 0, ending |-> FALSE])
       /\ uuids' = uuids + 1
       /\ transports' = Put(transports, sessionId, t)
       /\ serverTransport' = IF ok THEN t ELSE serverTransport
       /\ calls' = [calls EXCEPT ![c] =
                      [Free EXCEPT !.kind = "sse", !.pc = "connect", !.t = t,
                                   !.err = ~ok, !.via = IF ok THEN t ELSE 0]]
  /\ last' = None /\ UNCHANGED <<streams, variant, proc, removed, rpc>>

\* Second step: connect has settled; the catch block (lines 272-277) answers
\* 500 and leaves the table as it is.
sseConnected(c) ==
  /\ Running /\ calls[c].kind = "sse" /\ calls[c].pc = "connect"
  /\ LET t == calls[c].t IN
     IF calls[c].err THEN
       /\ last' = Outcome("sse", Undefined, "other", 500, t, 0, FALSE)
       /\ UNCHANGED tr
     ELSE
       /\ last' = Outcome("sse", Undefined, "other", 200, t, calls[c].via, FALSE)
       /\ tr' = [tr EXCEPT ![t].booted = TRUE]
  /\ calls' = [calls EXCEPT ![c] = Free]
  /\ UNCHANGED <<streams, variant, transports, uuids, serverTransport, proc, removed, rpc>>

\* --------------------------------------------------- app.post('/messages')
postMessages(c, sid) ==
  /\ Running /\ variant = "sse" /\ proc.signals = 0 /\ FreeSlot(c)
  /\ IF sid = Undefined THEN
       /\ last' = Outcome("messages", sid, "other", 400, 0, 0, FALSE)
       /\ UNCHANGED calls
     ELSE IF ~Truthy(sid) THEN
       /\ last' = Outcome("messages", sid, "other", 404, 0, 0, FALSE)
       /\ UNCHANGED calls
     ELSE IF sid \in DOMAIN transports THEN
       /\ calls' = [calls EXCEPT ![c] =
                      [Free EXCEPT !.kind = "messages", !.pc = "message",
                                   !.t = transports[sid]]]
       /\ last' = None
     ELSE
       \* an inherited key: handlePostMessage is not a function; caught
       /\ last' = Outcome("messages", sid, "other", 500, 0, 0, FALSE)
       /\ UNCHANGED calls
  /\ UNCHANGED <<streams, variant, transports, tr, uuids, serverTransport, proc, removed, rpc>>

\* transport.handlePostMessage has settled: 202 and the Server's reply on the
\* stream of the transport it is bound to, or the catch block's 500.
messageHandled(c) ==
  /\ Running /\ calls[c].kind = "messages" /\ calls[c].pc = "message"
  /\ \E ok \in BOOLEAN :
       LET t == calls[c].t IN
       last' = Settled("messages", t, "other", IF ok THEN 202 ELSE 500,
                       IF ok THEN serverTransport ELSE 0, FALSE)
  /\ calls' = [calls EXCEPT ![c] = Free]
  /\ UNCHANGED <<streams, variant, transports, tr, uuids, serverTransport, proc, removed, rpc>>

\* ------------------------------------------------------ transport.onclose
\* The callback part_001 gives every SSE transport (lines 265-268).  MCPServer
\* gives its transports none, so nothing deletes from MCPServer.transports.
\* a close callback that empties the table
dropAll(table, t) == [sid \in {} |-> t]
onclose(table, t) ==
  IF tr[t].onclose /\ tr[t].sessionId \in DOMAIN table
  THEN Drop(table, tr[t].sessionId) ELSE table

Deleted(table) == (DOMAIN transports) \ (DOMAIN table)

\* The client of an established SSE stream disconnects: the transport's close
\* signal runs onclose, and the Server drops its transport binding.
disconnect(t) ==
  /\ Running /\ variant = "sse"
  /\ t \in 1..Len(tr) /\ tr[t].started /\ tr[t].state = "active"
  /\ tr' = [tr EXCEPT ![t].state = "closed", ![t].fired = @ + 1]
  /\ transports' = onclose(transports, t)
  /\ removed' = removed \cup Deleted(transports')
  /\ serverTransport' = 0
  /\ last' = None /\ UNCHANGED <<streams, variant, uuids, calls, proc, rpc>>

\* ------------------------------------------------- shutdown (part_001)
\* Runs on SIGINT and on SIGTERM.  The for-in loop calls close() on every
\* transport of the table; a close that returns runs onclose at once, one that
\* throws is logged, one that hangs leaves its stream open.  Then
\* httpServer.close(...) and the forced-exit timer are started.
CloseOutcomes == {"ok", "throw", "hang"}

\* the keys of the table in the order for-in visits them
Keys(table) ==
  CHOOSE keys \in [1..Cardinality(DOMAIN table) -> DOMAIN table] :
    \A i, j \in DOMAIN keys : i < j => keys[i] < keys[j]

\* a loop body without try/catch
Unguarded == FALSE
\* try { ... transport.close() ... } catch: a close that throws is caught
CloseGuarded == TRUE

\* The for-in loop of shutdown over the keys it started with: a key deleted
\* before its turn is not visited; close() runs onclose before it returns;
\* a close that throws or rejects is logged and the loop goes on.
RECURSIVE closeLoop(_, _, _)
closeLoop(keys, table, outcome) ==
  IF keys = << >> THEN [visited |-> << >>, logged |-> {}, table |-> table, aborted |-> FALSE]
  ELSE IF Head(keys) \notin DOMAIN table THEN closeLoop(Tail(keys), table, outcome)
  ELSE
    LET sid == Head(keys)
        t == table[sid]
    IN IF outcome[sid] = "throw" /\ ~CloseGuarded
       THEN [visited |-> <<t>>, logged |-> {}, table |-> table, aborted |-> TRUE]
       ELSE
         LET rest == closeLoop(Tail(keys),
                               IF outcome[sid] = "ok" THEN onclose(table, t) ELSE table,
                               outcome)
         IN [rest EXCEPT !.visited = <<t>> \o @,
                         !.logged = @ \cup (IF outcome[sid] = "throw" THEN {t} ELSE {})]

shutdown ==
  /\ Running /\ variant = "sse" /\ proc.signals < 2
  /\ \E outcome \in [DOMAIN transports -> CloseOutcomes] :
       LET loop == closeLoop(Keys(transports), transports, outcome)
           asked == {loop.visited[i] : i \in DOMAIN loop.visited}
           with(o) == {t \in asked : outcome[tr[t].sessionId] = o}
           done == with("ok")
           hung == with("hang")
       IN
       /\ tr' = [t \in DOMAIN tr |->
                   IF t \in done
                   THEN [tr[t] EXCEPT !.state = "closed",
                                      !.fired = IF tr[t].onclose THEN @ + 1 ELSE @,
                                      !.ending = tr[t].started]
                   ELSE IF t \in hung THEN [tr[t] EXCEPT !.state = "closing"]
                   ELSE tr[t]]
       /\ transports' = loop.table
       /\ removed' = removed \cup Deleted(loop.table)
       /\ serverTransport' = IF done # {} THEN 0 ELSE serverTransport
       /\ proc' = [proc EXCEPT !.signals = @ + 1,
                               !.timer = @ \/ ~loop.aborted,
                               !.stopping = @ \/ ~loop.aborted,
                               !.closeReq = @ \cup asked, !.hung = @ \cup hung,
                               !.visited = loop.visited,
                               !.threw = with("throw"),
                               !.logged = loop.logged]
  /\ last' = None /\ UNCHANGED <<streams, variant, uuids, calls, rpc>>

\* The response a close() has ended emits its close event: the listener the
\* transport registered when it started runs onclose, as it does when the
\* client disconnects.
responseClosed(t) ==
  /\ Running /\ variant = "sse"
  /\ t \in 1..Len(tr) /\ tr[t].ending
  /\ tr' = [tr EXCEPT ![t].ending = FALSE, ![t].fired = IF tr[t].onclose THEN @ + 1 ELSE @]
  /\ transports' = onclose(transports, t)
  /\ removed' = removed \cup Deleted(transports')
  /\ last' = None /\ UNCHANGED <<streams, variant, uuids, serverTransport, calls, proc, rpc>>

OpenStreams == {t \in DOMAIN tr : tr[t].started /\ tr[t].state # "closed"}

\* httpServer.close's callback: every connection has ended; process.exit(0).
httpServerClosed ==
  /\ Running /\ variant = "sse" /\ proc.signals > 0
  /\ OpenStreams = {} /\ \A c \in Slots : calls[c] = Free
  /\ proc' = [proc EXCEPT !.state = "exited"]
  /\ last' = None
  /\ UNCHANGED <<streams, variant, transports, tr, uuids, serverTransport, calls, removed, rpc>>

\* The forced-exit timer fires: process.exit(1).
forceExit ==
  /\ Running /\ proc.timer /\ proc.elapsed >= ShutdownTimeout
  /\ proc' = [proc EXCEPT !.state = "exited"]
  /\ last' = None
  /\ UNCHANGED <<streams, variant, transports, tr, uuids, serverTransport, calls, removed, rpc>>

\* One second passes after the first signal; a timer that is due fires first.
second ==
  /\ Running /\ proc.signals > 0
  /\ proc.elapsed <= ShutdownTimeout
  /\ ~(proc.timer /\ proc.elapsed >= ShutdownTimeout)
  /\ proc' = [proc EXCEPT !.elapsed = @ + 1]
  /\ last' = None
  /\ UNCHANGED <<streams, variant, transports, tr, uuids, serverTransport, calls, removed, rpc>>

\* ------------------------------- process.on("SIGINT") of index.http.ts
\* cleanup(): the tool timer is closed and server.close() closes the one
\* transport the Server is bound to; process.exit(0) follows once that close
\* has settled.  No timer bounds the wait.
cleanup ==
  /\ Running /\ variant = "http" /\ proc.signals = 0
  /\ \E hangs \in BOOLEAN :
       LET t == serverTransport IN
       /\ hangs => t # 0
       /\ tr' = IF t = 0 THEN tr
                ELSE [tr EXCEPT ![t].state = IF hangs THEN "closing" ELSE "closed"]
       /\ transports' = IF t = 0 \/ hangs THEN transports ELSE onclose(transports, t)
       /\ removed' = removed \cup Deleted(transports')
       /\ serverTransport' = IF hangs THEN t ELSE 0
       /\ proc' = [proc EXCEPT !.signals = 1, !.interval = FALSE,
                               !.closeReq = IF t = 0 THEN {} ELSE {t},
                               !.hung = IF hangs THEN {t} ELSE {}]
  /\ last' = None /\ UNCHANGED <<streams, variant, uuids, calls, rpc>>

sigintExit ==
  /\ Running /\ variant = "http" /\ proc.signals = 1 /\ proc.hung = {}
  /\ proc' = [proc EXCEPT !.state = "exited"]
  /\ last' = None
  /\ UNCHANGED <<streams, variant, transports, tr, uuids, serverTransport, calls, removed, rpc>>

\* ------------------------------------------- the tool-list timer (5 s)
\* sendNotification awaits transport.send with no catch: a send that fails
\* rejects the promise sendNotification returned, which the forEach callback
\* drops.
\* a notification that is never handed to the transport
sendNothing(t, fails) == [invoked |-> {}, failed |-> {}, logged |-> {}, unhandled |-> {}]
sendNotification(t, fails) ==
  [invoked |-> {t},
   failed |-> IF fails THEN {t} ELSE {},
   logged |-> {},
   unhandled |-> IF fails THEN {t} ELSE {}]

toolInterval ==
  /\ Running /\ variant = "http" /\ proc.interval
  /\ \E failing \in SUBSET {transports[sid] : sid \in DOMAIN transports} :
       LET targets == {transports[sid] : sid \in DOMAIN transports}
           sent == [t \in targets |-> sendNotification(t, t \in failing)]
       IN last' = [None EXCEPT
                     !.kind = "tick",
                     !.targets = targets,
                     !.invoked = UNION {sent[t].invoked : t \in targets},
                     !.failed = UNION {sent[t].failed : t \in targets},
                     !.logged = UNION {sent[t].logged : t \in targets},
                     !.unhandled = UNION {sent[t].unhandled : t \in targets}]
  /\ UNCHANGED <<streams, variant, transports, tr, uuids, serverTransport, calls, proc,
                 removed, rpc>>

\* The outcome of the last call or timer run has been read.
observe ==
  /\ last # None
  /\ last' = None
  /\ UNCHANGED <<streams, variant, transports, tr, uuids, serverTransport, calls, proc,
                 removed, rpc>>

\* --------------------------------------------------------- specification
Next ==
  \/ \E c \in Slots, sid \in ClientIds, body \in Bodies : handlePostRequest(c, sid, body)
  \/ \E c \in Slots : postConnected(c)
  \/ \E c \in Slots : postHandled(c)
  \/ \E c \in Slots : postReused(c)
  \/ \E c \in Slots, sid \in ClientIds : handleGetRequest(c, sid)
  \/ \E c \in Slots : getHandled(c)
  \/ \E c \in Slots : getSse(c)
  \/ \E c \in Slots : sseConnected(c)
  \/ \E c \in Slots, sid \in ClientIds : postMessages(c, sid)
  \/ \E c \in Slots : messageHandled(c)
  \/ \E t \in 1..MaxTransports : disconnect(t)
  \/ shutdown
  \/ \E t \in 1..MaxTransports : responseClosed(t)
  \/ httpServerClosed
  \/ cleanup
  \/ sigintExit
  \/ toolInterval
  \/ observe

Spec == Init /\ [][Next]_vars

\* ------------------------------------------- the shutdown paths, timed
\* The process with n sessions established and no call in flight, as the
\* request handlers above leave it; then signals, closes and seconds.
Min(a, b) == IF a < b THEN a ELSE b

InitShutdown ==
  /\ variant \in {"http", "sse"}
  /\ \E n \in 0..Min(MaxSessions, MaxTransports) :
       /\ tr = [t \in 1..n |-> [sessionId |-> t, state |-> "active",
                                onclose |-> (variant = "sse"), started |-> TRUE,
                                booted |-> TRUE, fired |-> 0, ending |-> FALSE]]
       /\ transports = [sid \in 1..n |-> sid]
       /\ uuids = n
       /\ serverTransport = n
  /\ calls = [c \in Slots |-> Free]
  /\ proc = NewProc
  /\ last = None
  /\ removed = {}
  /\ rpc = NoRpc
  /\ streams = << >>

NextShutdown ==
  \/ \E t \in 1..MaxTransports : disconnect(t)
  \/ shutdown
  \/ \E t \in 1..MaxTransports : responseClosed(t)
  \/ httpServerClosed
  \/ forceExit
  \/ second
  \/ cleanup
  \/ sigintExit

SpecShutdown == InitShutdown /\ [][NextShutdown]_vars

\* ------------------------------------------------------- the dispatchers
MaxRequests == 3

\* JSON-RPC error codes: part_003 writes them out; the SDK's Server answers a
\* handler's thrown Error with InternalError unless the error carries a code.
MethodNotFound == -32601
InternalError == -32603

\* private getAlertsToolName / getForecastToolName of MCPServer
getAlertsToolName == "get-alerts"
getForecastToolName == "get-forecast"

Dispatchers == {"MCPProtocolHandler", "MCPServer"}
Methods == {"initialize", "tools/list", "tools/call", "resources/list"}
ToolNames == {"get_alerts", "get_forecast", "get-alerts", "get-forecast", "unknown-tool"}
\* arguments: absent, an object with the tool's inputs, an object without them
Arguments == {"absent", "valid", "empty"}

Requests ==
  {[id |-> i, method |-> m, params |-> FALSE, name |-> "", args |-> "absent"] :
     i \in {1, 2, Undefined}, m \in Methods}
  \cup
  {[id |-> i, method |-> "tools/call", params |-> TRUE, name |-> n, args |-> a] :
     i \in {1, 2, Undefined}, n \in ToolNames \cup {""}, a \in Arguments}

Result(id) == [NoResponse EXCEPT !.id = id, !.kind = "result"]
Error(id, code, message) ==
  [NoResponse EXCEPT !.id = id, !.kind = "error", !.code = code, !.message = message]

\* getAlerts(args.state) / getForecast(args.latitude, args.longitude): reading
\* an input of absent arguments, or calling a method of an absent input, throws
\* a TypeError; a failing weather request is answered with a text, not thrown.
ProviderThrows(args) == args # "valid"

\* MCPProtocolHandler.handleRequest (part_003)
handleRequest(request) ==
  LET id == request.id IN
  CASE request.method = "initialize" ->
         [Result(id) EXCEPT !.serverInfo = "weather"]
    [] request.method = "tools/list" ->
         [Result(id) EXCEPT !.tools = <<"get_alerts", "get_forecast">>]
    [] request.method = "tools/call" ->
         IF ~request.params
         THEN [Error(id, InternalError, "Internal error") EXCEPT !.data = "TypeError"]
         ELSE IF request.name \in {"get_alerts", "get_forecast"} THEN
           IF ProviderThrows(request.args)
           THEN [Error(id, InternalError, "Internal error") EXCEPT !.data = "TypeError"]
           ELSE Result(id)
         ELSE Error(id, MethodNotFound, "Unknown tool")
    [] OTHER -> Error(id, MethodNotFound, "Method not found")

\* a tool list with the forecast tool first
forecastFirst == <<getForecastToolName, getAlertsToolName>>
\* The ListTools handler setToolSchema registers (lines 176-215)
setToolSchema == <<getAlertsToolName, getForecastToolName>>

\* a handler that reports success whatever happened
toolSucceeds(request) == "ok"
\* The CallTool handler of MCPServer (lines 232-379): "ok" or the message of
\* the Error it throws.
CallTool(request) ==
  IF request.args = "absent" THEN "arguments undefined"
  ELSE IF request.name = "" THEN "tool name undefined"
  ELSE IF request.name \in {getAlertsToolName, getForecastToolName} THEN
    IF ProviderThrows(request.args) THEN "TypeError" ELSE "ok"
  ELSE "Tool not found"

\* The Server of index.http.ts (name "mcp-server", lines 484-497) with the
\* handlers MCPServer registers; an Error a handler throws has no code, and
\* its message becomes the message of the envelope.  The Server answers
\* requests only: an envelope without id goes to its notification handlers.
ServerDispatch(request) ==
  LET id == request.id IN
  CASE id = Undefined -> NoResponse
    [] request.method = "initialize" ->
         [Result(id) EXCEPT !.serverInfo = "mcp-server"]
    [] request.method = "tools/list" ->
         [Result(id) EXCEPT !.tools = setToolSchema]
    [] request.method = "tools/call" ->
         IF ~request.params THEN Error(id, InternalError, "TypeError")
         ELSE IF CallTool(request) = "ok" THEN Result(id)
         ELSE Error(id, InternalError, CallTool(request))
    [] OTHER -> Error(id, MethodNotFound, "Method not found")

\* What the repository configures: the name and the tools /mcp/info and
\* /mcp/tools advertise beside MCPProtocolHandler (part_000), the name given
\* to the Server and the tool names of MCPServer (index.http.ts).
ConfiguredName(dispatcher) ==
  IF dispatcher = "MCPProtocolHandler" THEN "weather" ELSE "mcp-server"
ConfiguredTools(dispatcher) ==
  IF dispatcher = "MCPProtocolHandler" THEN <<"get_alerts", "get_forecast">>
  ELSE <<getAlertsToolName, getForecastToolName>>

\* the provider called for this request throws
ProviderFailed(dispatcher, request) ==
  /\ request.method = "tools/call" /\ request.params
  /\ \E i \in 1..2 : request.name = ConfiguredTools(dispatcher)[i]
  /\ request.args # "absent" /\ ProviderThrows(request.args)

\* MCPServer dispatches for the sessions of its table; MCPProtocolHandler has
\* no session table.
InitDispatch ==
  /\ variant = "http"
  /\ \E d \in Dispatchers :
       /\ rpc = [NoRpc EXCEPT !.dispatcher = d]
       /\ \E n \in 0..(IF d = "MCPServer" THEN Min(MaxSessions, MaxTransports) ELSE 0) :
            /\ tr = [t \in 1..n |-> [sessionId |-> t, state |-> "active", onclose |-> FALSE,
                                     started |-> TRUE, booted |-> TRUE,
                                     fired |-> 0, ending |-> FALSE]]
            /\ transports = [sid \in 1..n |-> sid]
            /\ uuids = n
            /\ serverTransport = n
  /\ calls = [c \in Slots |-> Free]
  /\ proc = NewProc
  /\ last = None
  /\ removed = {}
  /\ streams = << >>

dispatch(request) ==
  /\ Len(rpc.history) < MaxRequests
  /\ rpc' = [rpc EXCEPT
               !.history = Append(@, request.method),
               !.threw = Append(@, ProviderFailed(rpc.dispatcher, request)),
               !.request = request,
               !.response = IF rpc.dispatcher = "MCPProtocolHandler"
                            THEN handleRequest(request)
                            ELSE ServerDispatch(request)]
  /\ UNCHANGED <<streams, variant, transports, tr, uuids, serverTransport, calls, proc, last,
                 removed>>

NextDispatch == \E request \in Requests : dispatch(request)

SpecDispatch == InitDispatch /\ [][NextDispatch]_vars

\* ------------------------------------------------ notification sends
\* The sends MCPServer starts on its transports, one step per timer callback
\* and one per settled send.  sendNotification is async and awaits
\* transport.send; none of its callers awaits or catches the promise it
\* returns, so a send is in flight from the call until its promise settles.
MaxPending == 3

NoStream ==
  [pending |-> 0, messageCount |-> 0, interval |-> FALSE, issued |-> << >>,
   failed |-> FALSE, logged |-> FALSE, unhandled |-> FALSE]

InitSend ==
  /\ variant = "http"
  /\ \E n \in 1..Min(MaxSessions, MaxTransports) :
       /\ tr = [t \in 1..n |-> [sessionId |-> t, state |-> "active", onclose |-> FALSE,
                                started |-> TRUE, booted |-> TRUE,
                                fired |-> 0, ending |-> FALSE]]
       /\ transports = [sid \in 1..n |-> sid]
       /\ uuids = n
       /\ serverTransport = n
       /\ streams = [t \in 1..n |-> NoStream]
  /\ calls = [c \in Slots |-> Free]
  /\ proc = NewProc
  /\ last = None
  /\ removed = {}
  /\ rpc = NoRpc

Quiet == UNCHANGED <<variant, transports, tr, uuids, serverTransport, calls, proc, last,
                     removed, rpc>>

\* streamMessages(transport), called when a GET stream is established: the
\* first notification is sent and the one-second timer is started.
streamMessages(t) ==
  /\ t \in DOMAIN streams /\ ~streams[t].interval
  /\ streams[t].pending < MaxPending
  /\ streams' = [streams EXCEPT ![t].pending = @ + 1, ![t].messageCount = 0,
                                ![t].interval = TRUE,
                                ![t].issued = <<"SSE Connection established">>]
  /\ Quiet

\* a stream that is never complete
neverComplete(messageCount) == FALSE
\* if (messageCount === 2)
StreamingComplete(messageCount) == messageCount = 2
\* `Message ${messageCount} at ${new Date().toISOString()}`, without the time
Message(messageCount) ==
  IF messageCount = 1 THEN "Message 1" ELSE IF messageCount = 2 THEN "Message 2"
  ELSE "Message n"

\* The callback of that timer: one notification, and at the second message
\* clearInterval and a closing notification in the same run.
streamInterval(t) ==
  /\ t \in DOMAIN streams /\ streams[t].interval
  /\ LET messageCount == streams[t].messageCount + 1
         messages == IF StreamingComplete(messageCount)
                     THEN <<Message(messageCount), "Streaming complete!">>
                     ELSE <<Message(messageCount)>> IN
     /\ streams[t].pending + Len(messages) <= MaxPending
     /\ streams' = [streams EXCEPT ![t].messageCount = messageCount,
                                   ![t].pending = @ + Len(messages),
                                   ![t].issued = @ \o messages,
                                   ![t].interval = ~StreamingComplete(messageCount)]
  /\ Quiet

\* The callback of the tool-list timer: a notification to every transport of
\* the table.
toolIntervalSends ==
  /\ proc.interval
  /\ LET targets == {transports[sid] : sid \in DOMAIN transports} IN
     /\ \A t \in targets : streams[t].pending < MaxPending
     /\ streams' = [t \in DOMAIN streams |->
                      IF t \in targets THEN [streams[t] EXCEPT !.pending = @ + 1]
                      ELSE streams[t]]
  /\ Quiet

\* The Server answers a request handed to it by transport.handleRequest: the
\* reply is sent on the transport the Server is bound to.
replySend ==
  /\ serverTransport \in DOMAIN streams
  /\ streams[serverTransport].pending < MaxPending
  /\ streams' = [streams EXCEPT ![serverTransport].pending = @ + 1]
  /\ Quiet

\* A send settles.  When transport.send rejects, the promise of
\* sendNotification rejects with it: no caller holds it, nothing is logged, the
\* table is not touched.
sendSettled(t, ok) ==
  /\ t \in DOMAIN streams /\ streams[t].pending > 0
  /\ streams' = [streams EXCEPT ![t].pending = @ - 1,
                                ![t].failed = @ \/ ~ok,
                                ![t].unhandled = @ \/ ~ok]
  /\ Quiet

NextSend ==
  \/ \E t \in 1..MaxTransports : streamMessages(t)
  \/ \E t \in 1..MaxTransports : streamInterval(t)
  \/ toolIntervalSends
  \/ replySend
  \/ \E t \in 1..MaxTransports, ok \in BOOLEAN : sendSettled(t, ok)

SpecSend == InitSend /\ [][NextSend]_vars

\* --------------------------------------- app.post('/mcp/call') (part_000)
\* req.body: the tool ("" when missing), the params (absent, fit for
\* get_alerts, fit for get_forecast, fit for neither), and whether the tool's
\* run or the writing of its result throws something that is no ZodError.
CallTools == {"", "get_alerts", "get_forecast", "get-alerts"}
CallParams == {"absent", "state", "latlon", "bad"}
CallBodies == [tool : CallTools, params : CallParams, fault : BOOLEAN]

NoCall == [tool |-> "", params |-> "absent", fault |-> FALSE]
NoReply == [status |-> 0, code |-> "", invoked |-> FALSE, responses |-> 0]
Reply(status, code, invoked) ==
  [status |-> status, code |-> code, invoked |-> invoked, responses |-> 1]

\* a schema that accepts any params
acceptsAll(tool, params) == TRUE
\* alertsSchema.parse / forecastSchema.parse succeed; absent params are {}
SchemaAccepts(tool, params) ==
  \/ tool = "get_alerts" /\ params = "state"
  \/ tool = "get_forecast" /\ params = "latlon"

mcpCall(body) ==
  IF body.tool = "" THEN Reply(400, "MISSING_TOOL", FALSE)
  ELSE IF body.tool \in {"get_alerts", "get_forecast"} THEN
    IF ~SchemaAccepts(body.tool, body.params) THEN Reply(400, "VALIDATION_ERROR", FALSE)
    ELSE IF body.fault THEN Reply(500, "INTERNAL_ERROR", TRUE)
    ELSE Reply(200, "", TRUE)
  ELSE Reply(400, "UNKNOWN_TOOL", FALSE)

InitCall ==
  /\ variant = "http"
  /\ transports = << >>
  /\ tr = << >>
  /\ uuids = 0
  /\ serverTransport = 0
  /\ calls = [c \in Slots |-> Free]
  /\ proc = NewProc
  /\ last = None
  /\ removed = {}
  /\ streams = << >>
  /\ rpc = [dispatcher |-> "/mcp/call", history |-> << >>, request |-> NoCall,
            response |-> NoReply]

postMcpCall(body) ==
  /\ Len(rpc.history) < MaxRequests
  /\ rpc' = [rpc EXCEPT !.history = Append(@, body.tool), !.request = body,
                        !.response = mcpCall(body)]
  /\ UNCHANGED <<streams, variant, transports, tr, uuids, serverTransport, calls, proc, last,
                 removed>>

NextCall == \E body \in CallBodies : postMcpCall(body)

SpecCall == InitCall /\ [][NextCall]_vars

\* ================================================================ claims
Range(f) == {f[x] : x \in DOMAIN f}
ErrorStatus == {400, 404, 500}
CallKinds == {"post", "get", "sse", "messages"}

\* C1: a request carrying a session identifier that was never issued or has
\* been removed is rejected with an error response and creates no session.
\* MCPServer.handleGetRequest breaks it: an identifier that names an inherited
\* key of the table object passes the guard, the call on it throws a TypeError
\* no catch block handles, and nothing is answered.
C1_UnknownSessionRejected ==
  last.unknown =>
    /\ last.status \in ErrorStatus
    /\ ~last.uncaught
    /\ last.sid \notin DOMAIN transports

\* C2: the identifier a bootstrap hands to its client is registered by the
\* time the client holds it.  MCPServer.handlePostRequest breaks it: the
\* transport answers the initialize request (session id included) inside
\* "await transport.handleRequest", and the table is written only after it.
Delivered(t) == tr[t].started /\ tr[t].sessionId # 0 /\ tr[t].state = "active"

C2_BootstrapIdUsable ==
  \A t \in DOMAIN tr :
    (Delivered(t) /\ tr[t].sessionId \notin removed) =>
      /\ tr[t].sessionId \in DOMAIN transports
      /\ transports[tr[t].sessionId] = t

\* C3: interleaved bootstraps get pairwise distinct identifiers, and once all
\* have completed the table holds one entry per bootstrap that succeeded.
\* GET /sse breaks the count: the entry is written before connect and stays
\* when connect fails.
NoBootstrapInFlight == \A c \in Slots : calls[c].pc # "connect" /\ calls[c].pc # "handle"

C3_RegistryMatchesBootstraps ==
  /\ \A t, u \in DOMAIN tr :
       (t # u /\ tr[t].sessionId # 0) => tr[t].sessionId # tr[u].sessionId
  /\ (NoBootstrapInFlight /\ removed = {} /\ proc.signals = 0) =>
       Cardinality(DOMAIN transports) = Cardinality({t \in DOMAIN tr : tr[t].booted})

\* C4: once a transport's close is triggered its session is out of the table
\* and its identifier is answered as unknown, for both tables.  MCPServer
\* breaks it: server.close() closes the transport and nothing deletes its entry.
C4_ClosedSessionUnusable ==
  /\ \A t \in DOMAIN tr :
       (tr[t].state = "closed" /\ tr[t].sessionId # 0) =>
         tr[t].sessionId \notin DOMAIN transports
  /\ (last.unknown /\ last.sid \in removed) =>
       (last.status \in ErrorStatus /\ ~last.uncaught)

\* C5: an identifier that was removed from the session table is never in the
\* table again.
C5_RemovedNeverReinserted == removed \cap DOMAIN transports = {}

\* C5 witness: a session was removed, a request supplying its identifier was
\* answered "Session not found", and another session is live.
C5_Witness ==
  /\ last.kind = "messages" /\ last.sid \in removed /\ last.status = 404
  /\ DOMAIN transports # {}

\* C6: the reply to a request that arrived on a session is written through
\* that session's transport, never through another session's.  Both servers
\* break it: every bootstrap connects its transport to the one shared Server,
\* which replies through the transport connected last.
C6_ReplyOnOwnTransport ==
  (last.kind \in CallKinds /\ last.via # 0) => last.via = last.t

\* C7: when one send of the tool-list broadcast fails, the other transports
\* are still sent to, and the failure is caught and logged.  The timer of
\* MCPServer.setupTools sends to all, but drops the promise sendNotification
\* returns: the failure is an unhandled rejection and is never logged.
C7_BroadcastIsolatesFailure ==
  (last.kind = "tick" /\ Cardinality(last.failed) = 1) =>
    /\ last.invoked = last.targets
    /\ last.failed \subseteq last.logged
    /\ last.unhandled = {}

\* C8: after a termination signal, close is requested on every session even
\* if one close hangs, and the process has exited once the shutdown timeout
\* has passed, on both servers.  The SIGINT handler of index.http.ts breaks
\* it: cleanup() closes only the transport the Server is bound to and awaits
\* it with no timer.
C8_ShutdownDrainsWithinTimeout ==
  proc.signals > 0 =>
    /\ Range(transports) \subseteq proc.closeReq
    /\ proc.elapsed > ShutdownTimeout => proc.state = "exited"

\* C9: initialize is answered with the configured server name, and a later
\* tools/list with the two configured tools, alerts first, whatever was
\* requested in between.
Listed(history) == \E i \in DOMAIN history : history[i] = "initialize"

C9_InitializeThenList ==
  /\ (rpc.request.method = "initialize" /\ rpc.request.id # Undefined) =>
       /\ rpc.response.kind = "result"
       /\ rpc.response.serverInfo = ConfiguredName(rpc.dispatcher)
  /\ (rpc.request.method = "tools/list" /\ rpc.request.id # Undefined
      /\ Listed(rpc.history)) =>
       /\ rpc.response.kind = "result"
       /\ rpc.response.tools = ConfiguredTools(rpc.dispatcher)

\* C9 witness: initialize, another request, then tools/list.
C9_Witness ==
  /\ Len(rpc.history) = 3
  /\ rpc.history[1] = "initialize" /\ rpc.history[2] = "tools/call"
  /\ rpc.request.method = "tools/list" /\ Len(rpc.response.tools) = 2

\* C10: tools/call naming a tool that is not configured is answered with
\* method-not-found (-32601) by every dispatcher.  The CallTool handler of
\* MCPServer throws a plain Error, which the Server answers as an internal
\* error (-32603).
C10_UnknownToolIsMethodNotFound ==
  (/\ rpc.request.method = "tools/call" /\ rpc.request.params
   /\ rpc.request.id # Undefined /\ rpc.request.name # ""
   /\ \A i \in 1..2 : rpc.request.name # ConfiguredTools(rpc.dispatcher)[i]) =>
    /\ rpc.response.kind = "error"
    /\ rpc.response.code = MethodNotFound

\* C11: every response envelope carries the id of the request that caused it
\* and exactly one of result and error, the envelopes of createErrorResponse
\* included.  createErrorResponse breaks it: it never sees the request and
\* puts a new random UUID in the id position.
C11_EnvelopeEchoesRequestId ==
  (last.kind = "post" /\ last.envelope # NoEnvelope) =>
    /\ last.envelope.id = RequestId(last.body)
    /\ last.envelope.result # last.envelope.error

\* C13: a POST without a session id whose body is no initialize request is
\* answered with a client error (400), allocates no transport and leaves the
\* session table and the Server's binding as they were.
NonBootstrapBodies == {"other", "batchOther"}

C13_NonBootstrapRejected ==
  [][\A c \in Slots, body \in NonBootstrapBodies :
       handlePostRequest(c, Undefined, body) =>
         /\ last'.kind = "post" /\ last'.status = 400
         /\ UNCHANGED <<transports, tr, serverTransport, calls>>]_vars

\* C13 witness: such a POST was answered 400 while a session is registered.
C13_Witness ==
  /\ last.kind = "post" /\ last.sid = Undefined /\ last.body \in NonBootstrapBodies
  /\ last.status = 400 /\ last.t = 0
  /\ DOMAIN transports # {}

\* C14: a POST without a session id whose body is an array never bootstraps a
\* session, even when an element is an initialize request.  isInitializeRequest
\* breaks it: body.some(isInitial) accepts the array, and handlePostRequest
\* builds a transport, connects the Server to it and registers the session.
C14_BatchNeverBootstraps ==
  [][\A c \in Slots :
       handlePostRequest(c, Undefined, "batch") =>
         /\ last'.status = 400
         /\ UNCHANGED <<transports, tr, serverTransport>>]_vars

\* C12: an envelope without id is a notification and gets no response
\* envelope, whatever its method.  MCPProtocolHandler.handleRequest breaks it:
\* every branch returns an envelope (with id undefined), the catch included.
C12_NotificationUnanswered ==
  (rpc.request.method # "" /\ rpc.request.id = Undefined) => rpc.response = NoResponse

\* C15: when the provider throws during tools/call the caller gets an error
\* envelope that carries the provider's message, no session entry changes, and
\* requests after it are answered as they would have been without it.
EarlierFailure == \E i \in 1..(Len(rpc.threw) - 1) : rpc.threw[i]
WellFormed(dispatcher, request) ==
  \/ request.method \in {"initialize", "tools/list"}
  \/ /\ request.method = "tools/call" /\ request.params /\ request.args = "valid"
     /\ \E i \in 1..2 : request.name = ConfiguredTools(dispatcher)[i]

C15_ProviderFailureContained ==
  [][rpc' # rpc =>
       LET request == rpc'.request
           response == rpc'.response
           answered == rpc.dispatcher = "MCPProtocolHandler" \/ request.id # Undefined
       IN /\ (answered /\ ProviderFailed(rpc.dispatcher, request)) =>
               /\ response.kind = "error" /\ response.id = request.id
               /\ "TypeError" \in {response.message, response.data}
          /\ (answered /\ (\E i \in DOMAIN rpc.threw : rpc.threw[i])
              /\ WellFormed(rpc.dispatcher, request)) =>
               (response.kind = "result" /\ response.id = request.id)
          /\ UNCHANGED <<transports, tr, serverTransport, proc>>]_vars

\* C15 witness: on a server with two sessions a provider threw, and the
\* tools/call after it was answered with a result.
C15_Witness ==
  /\ Cardinality(DOMAIN transports) = 2
  /\ EarlierFailure
  /\ rpc.request.method = "tools/call" /\ rpc.response.kind = "result"

\* C16: when a notification write fails, the failure is logged, the session
\* is removed from the table, and nothing is left uncaught.  MCPServer does
\* none of it: the promise of sendNotification is dropped by both timers (the
\* try/catch of the stream timer sees no rejection of a promise it does not
\* await), and no code removes an entry of the table.
C16_FailedWriteRemovesSession ==
  \A t \in DOMAIN streams :
    streams[t].failed =>
      /\ streams[t].logged
      /\ ~streams[t].unhandled
      /\ tr[t].sessionId \notin DOMAIN transports

\* C20: at most one send is in flight on a transport at any time.  Nothing
\* in MCPServer orders the sends: the stream timer starts two in one run, and
\* the tool-list timer and the Server's reply start theirs whatever is pending.
C20_OneSendInFlight == \A t \in DOMAIN streams : streams[t].pending <= 1

\* C17: every call to a session endpoint ends with a response or an HTTP
\* error status, also when the transport's handling throws.
\* MCPServer.handleGetRequest breaks it: it has no try/catch, so a throwing
\* transport.handleRequest ends the handler with nothing written.
C17_EveryCallAnswered == last.kind \in CallKinds => last.status # 0

\* C18: each kind of protocol error has its own code, and the HTTP status is
\* 400 for client errors (a missing or unknown session id among them) and 500
\* for internal errors.  createErrorResponse writes the same code into the 400
\* and the 500 envelopes, POST /messages answers an unknown session with 404,
\* and POST /mcp answers an identifier that is an inherited key with 500.
C18_StatusAndCodeMirrorKind ==
  /\ (last.unknown /\ ~last.uncaught) => last.status = 400
  /\ last.envelope # NoEnvelope =>
       (last.status = 500 <=> last.envelope.code = InternalError)

\* C19: a session entry exists only for a bootstrap that succeeded: when
\* connect or the handling of the first request throws, the table holds no
\* entry for that session afterwards.  GET /sse breaks it: the entry is
\* written before connect is awaited and the catch block does not delete it.
BootstrapFailed(t) ==
  /\ ~tr[t].booted
  /\ \A c \in Slots : ~(calls[c].t = t /\ calls[c].pc \in {"connect", "handle"})

C19_EntryOnlyAfterSuccess ==
  \A sid \in DOMAIN transports : ~BootstrapFailed(transports[sid])

\* C21: the close callback of a session runs exactly once over the session's
\* lifetime, whatever mix of client disconnects and shutdown runs occurs.
\* Nothing in the SSE server makes it so: shutdown calls close(), which runs
\* onclose and ends the response, and the close event of that response runs
\* onclose again; the callback itself has no guard.
C21_CloseCallbackOnce ==
  \A t \in DOMAIN tr :
    /\ tr[t].fired <= 1
    /\ tr[t].sessionId \in removed => tr[t].fired = 1

\* C23: a shutdown run requests close() exactly once on every session that
\* is in the table when it starts, although each close deletes its session's
\* entry while the table is being iterated.
Times(seq, x) == Cardinality({i \in DOMAIN seq : seq[i] = x})

C23_CloseLoopVisitsEachOnce ==
  [][(variant = "sse" /\ proc'.signals = proc.signals + 1) =>
       /\ \A sid \in DOMAIN transports : Times(proc'.visited, transports[sid]) = 1
       /\ Len(proc'.visited) = Cardinality(DOMAIN transports)]_vars

\* C23 witness: a shutdown run closed two sessions, and both entries were
\* deleted while the loop ran.
C23_Witness ==
  /\ variant = "sse" /\ proc.signals = 1
  /\ Len(proc.visited) = 2 /\ proc.visited[1] # proc.visited[2]
  /\ DOMAIN transports = {}

\* C24: when a close throws or rejects during shutdown it is logged, close()
\* is still requested on every other session of the table, and the HTTP
\* server stop and the forced-exit timer are started.
C24_CloseFailureDoesNotBlock ==
  [][(variant = "sse" /\ proc'.signals = proc.signals + 1) =>
       /\ proc'.threw \subseteq proc'.logged
       /\ Range(transports) \subseteq {proc'.visited[i] : i \in DOMAIN proc'.visited}
       /\ proc'.stopping /\ proc'.timer]_vars

\* C24 witness: the first close of a shutdown run threw, was logged, and the
\* second session was closed after it.
C24_Witness ==
  /\ variant = "sse" /\ proc.signals = 1 /\ proc.timer /\ proc.stopping
  /\ Len(proc.visited) = 2
  /\ proc.visited[1] \in proc.threw /\ proc.visited[1] \in proc.logged
  /\ tr[proc.visited[2]].state = "closed"

\* C22: POST /mcp/call validates before the tool runs: a missing tool name,
\* an unknown tool name and params that fail the tool's schema each get 400
\* without the tool being run; 500 is answered only for a failure that is no
\* validation failure; every call gets exactly one response.
ParamsFit(tool, params) ==
  \/ tool = "get_alerts" /\ params = "state"
  \/ tool = "get_forecast" /\ params = "latlon"

C22_CallValidatesFirst ==
  rpc.history # << >> =>
    LET body == rpc.request
        reply == rpc.response
    IN /\ ~ParamsFit(body.tool, body.params) => (reply.status = 400 /\ ~reply.invoked)
       /\ reply.status = 500 => (reply.invoked /\ body.fault)
       /\ reply.responses = 1

\* C22 witness: get_forecast called with the params of get_alerts, after an
\* earlier call, was answered 400 without the tool being run.
C22_Witness ==
  /\ Len(rpc.history) = 2
  /\ rpc.request.tool = "get_forecast" /\ rpc.request.params = "state"
  /\ rpc.response.status = 400 /\ rpc.response.code = "VALIDATION_ERROR"
  /\ ~rpc.response.invoked

\* C25: a tools/call envelope without params, or without the arguments the
\* tool's inputs are read from, is reported as a structural error with a
\* client-error code, not as an internal error, and the provider is not run.
\* Both dispatchers report it as an internal error: MCPProtocolHandler runs
\* into a TypeError its catch turns into -32603, and the CallTool handler of
\* MCPServer throws a plain Error the Server answers with -32603.
Malformed(request) ==
  /\ request.method = "tools/call" /\ request.id # Undefined
  /\ ~request.params \/ request.args = "absent"

C25_MalformedIsClientError ==
  (/\ Malformed(rpc.request)
   /\ rpc.request.params =>
        \E i \in 1..2 : rpc.request.name = ConfiguredTools(rpc.dispatcher)[i]) =>
    /\ rpc.response.kind = "error"
    /\ rpc.response.code # InternalError

\* C26: a request with the id of a live session is handed to that session's
\* transport and changes neither the table nor the set of transports,
\* whatever its body, an initialize body included.
C26_LiveSessionRequestKeepsTable ==
  [][\A c \in Slots, sid \in DOMAIN transports :
       /\ \A body \in Bodies :
            handlePostRequest(c, sid, body) =>
              /\ calls'[c].pc = "reuse" /\ calls'[c].t = transports[sid]
              /\ UNCHANGED <<transports, tr>>
       /\ handleGetRequest(c, sid) =>
            (calls'[c].t = transports[sid] /\ UNCHANGED <<transports, tr>>)
       /\ postMessages(c, sid) =>
            (calls'[c].t = transports[sid] /\ UNCHANGED <<transports, tr>>)
       /\ (postReused(c) \/ getHandled(c) \/ messageHandled(c)) =>
            UNCHANGED <<transports, tr>>]_vars

\* C26 witness: with one session registered, a POST carrying its id and an
\* initialize body was answered by its transport's handling, and the table
\* still holds that one session.
C26_Witness ==
  /\ last.kind = "post" /\ last.body = "init" /\ last.sid \in DOMAIN transports
  /\ last.t = transports[last.sid] /\ last.status = 200
  /\ Cardinality(DOMAIN transports) = 1 /\ Len(tr) = 1

\* C27: the session table is injective: no transport is registered under two
\* session ids.
C27_TableInjective ==
  \A sid, other \in DOMAIN transports :
    sid # other => transports[sid] # transports[other]

\* C27 witness: two sessions are registered.
C27_Witness == Cardinality(DOMAIN transports) = 2 /\ Cardinality(Range(transports)) = 2

\* C28: a run of the tool-list timer sends the notification once to each
\* transport that is in MCPServer.transports at that moment, sessions
\* bootstrapped since the run before included, and no run happens after
\* cleanup().
C28_TickNotifiesTable ==
  last.kind = "tick" =>
    /\ last.targets = Range(transports)
    /\ last.invoked = last.targets
    /\ proc.interval /\ proc.signals = 0

\* C28 witness: a run of the timer with two sessions registered.
C28_Witness == last.kind = "tick" /\ Cardinality(last.invoked) = 2

\* C29: on an established GET stream streamMessages issues 'SSE Connection
\* established', 'Message 1', 'Message 2', 'Streaming complete!' in this
\* order; its timer fires at most twice and is cancelled at the second run,
\* also when a send has failed.
StreamScript ==
  <<"SSE Connection established", "Message 1", "Message 2", "Streaming complete!">>

C29_StreamScriptAndTimerEnds ==
  \A t \in DOMAIN streams :
    LET stream == streams[t] IN
    /\ Len(stream.issued) <= Len(StreamScript)
    /\ \A i \in DOMAIN stream.issued : stream.issued[i] = StreamScript[i]
    /\ stream.messageCount <= 2
    /\ stream.interval => Len(stream.issued) = stream.messageCount + 1
    /\ stream.messageCount = 2 => (~stream.interval /\ stream.issued = StreamScript)

\* C29 witness: a stream issued all four messages, one of its sends failed,
\* and its timer is cancelled.
C29_Witness ==
  \E t \in DOMAIN streams :
    /\ streams[t].issued = StreamScript /\ streams[t].failed
    /\ ~streams[t].interval

====
